---- MODULE Spec2Model ----
(***************************************************************************)
(* Model of images/base/filers_common.py: the path resolver                *)
(* (process_filer_path, remap_filer_aliases, get_components, get_mc_path), *)
(* the environment-driven configuration lookup (get_filer_env_config,      *)
(* get_all_filers) and the initializer init_all_filers.                    *)
(*                                                                         *)
(* A Python str is the sequence of its characters, each a one-character    *)
(* TLA+ string: S("a/b") is << "a", "/", "b" >> and the empty str is       *)
(* << >>.  An optional value (str | None) is a sequence of length at most  *)
(* one: None is << >>, the str s is << s >>.                               *)
(***************************************************************************)
EXTENDS Integers, Sequences, FiniteSets, TLC

VARIABLES
    path,       \* the argument of the call under consideration
    env,        \* os.environ: a function from the names that are set to their values
    cwd,        \* os.getcwd(): the current working directory
    wait,       \* the arguments and local variables of wait_for_condition
    op,         \* the function called last ("none" before any call)
    result,     \* what that call returned or raised
    pc,         \* where init_all_filers stands ("idle" before it is called)
    filers,     \* init_all_filers: the list returned by get_all_filers
    invoked,    \* the argument lists of the mc commands run so far, in order
    codes,      \* the exit statuses of the mc commands that returned, in order
    marker,     \* the content of the done-indicator file, None while it is absent
    fs          \* what the file system does when the done-indicator file is written

\* the state of a run of init_all_filers
initvars == << pc, filers, invoked, codes, marker, fs >>

vars == << path, env, cwd, wait, op, result, pc, filers, invoked, codes, marker, fs >>

----------------------------------------------------------------------------
(* Python values *)

\* the str written as the TLA+ string literal t
S(t) == [i \in 1..Len(t) |-> SubSeq(t, i, i)]

None == << >>

Str(s) == << s >>

Return(v) == [status |-> "return", value |-> v, error |-> ""]

Raise(msg) == [status |-> "raise", value |-> None, error |-> msg]

----------------------------------------------------------------------------
(* The alias table: canonical name, then its alternate names, in source order *)

FILER_ALIASES ==
  <<
    << "fld3filersvm",
       << "assdnt2", "assdnt20", "assdntcad", "fld3file1", "fld3filer" >> >>,
    << "fld4filersvm",
       << "bop600", "imad3", "imad4", "imaddiskfarm", "meaddata", "pid6",
          "fld4filer" >> >>,
    << "fld5filersvm",
       << "agric", "btsapps", "btssce", "dtd1", "iofd1", "itd1lm", "itd3lm",
          "mced1nt", "mced2nt", "pipes1", "pricesfp01", "serv01", "serv02",
          "servtax", "sieid2", "fld5filer", "tranfs" >> >>,
    << "fld6filersvm",
       << "brd2", "brdfcdm", "geo", "geoapps", "geodepot2", "geoenterprise",
          "meth1", "meth4", "ottfifp03", "ottfifp04", "stds1", "fld6filer" >> >>,
    << "fld7filersvm",
       << "alpha", "eit-awsfs-dev1", "g-spec", "mtlfp01", "oidhome", "oidnt6",
          "oidnt7", "ordd1", "orddghost", "rob1", "rob3", "robweb", "yeti-awsfs-dev1",
          "fld7filer" >> >>,
    << "fld8filersvm",
       << "ccjsnt1", "co1", "codalg3", "codcola", "codfile", "csmp", "ctces01",
          "ctces02", "dem4", "eit-awsfs-stg1", "hfss3", "lhs1", "lhs2", "lhs3",
          "lhs4", "lhs5", "lhs6", "saad1", "sasd6", "fld8filer" >> >>,
    << "fld9filersvm",
       << "blmamwnt", "hamg1", "hlth", "hlth_apps", "hlth_projects", "hlth_users",
          "semg1", "fld9filer" >> >>,
    << "stcffb03svm",
       << "stcffb03", "eit-bwsfs-dev1", "f6stcffb01", "stcffb01", "yeti-bwsfs-dev1" >> >>,
    << "stdcflr_sasfs10svm",
       << "stdcflr-sasfs10" >> >>,
    << "stdcflr_sasfs20svm",
       << "sttcflr-sasfs20", "ibspdatatest" >> >>,
    << "stmcflr_sasfs61svm",
       << "stmcflr-sasfs61", "ibspdatamgmt" >> >>,
    << "stpcflr_sasfs50svm",
       << "stpcflr-sasfs50", "f8lad", "ibspdata" >> >>,
    << "stqcflr_sasfs40svm",
       << "stqcflr-sasfs40", "ibspdataqa" >> >>,
    << "sttcflr_sasfs10svm",
       << "ibspdatadev" >> >>,
    << "stucflr_sasfs30svm",
       << "stucflr-sasfs30", "ibspdatauat" >> >>,
    << "taxfilersvm",
       << "taxfiler", "taxadmin" >> >>
  >>

\* an entry that lists its own key among its alternate names
alternates_with_self(i) ==
    << S(FILER_ALIASES[i][1]) >> \o
        [j \in 1..Len(FILER_ALIASES[i][2]) |-> S(FILER_ALIASES[i][2][j])]

\* a table in which every entry also lists the first alternate name of the
\* first entry
alternates_shared(i) ==
    [j \in 1..Len(FILER_ALIASES[i][2]) |-> S(FILER_ALIASES[i][2][j])]
        \o << S(FILER_ALIASES[1][2][1]) >>

\* the canonical name of the i-th entry
canonical(i) == S(FILER_ALIASES[i][1])

\* the alternate names of the i-th entry
alternates(i) ==
    [j \in 1..Len(FILER_ALIASES[i][2]) |-> S(FILER_ALIASES[i][2][j])]

\* FILER_ALIASES.items(), as str values
items == [i \in 1..Len(FILER_ALIASES) |-> << canonical(i), alternates(i) >>]

----------------------------------------------------------------------------
(* str primitives *)

\* s[i-1:] in Python terms: the part of s from position i on
Suffix(s, i) == SubSeq(s, i, Len(s))

UPPERCASE == S("ABCDEFGHIJKLMNOPQRSTUVWXYZ")

LOWERCASE == S("abcdefghijklmnopqrstuvwxyz")

UppercaseLetters == {UPPERCASE[i] : i \in 1..Len(UPPERCASE)}

LowerOf ==
    [c \in UppercaseLetters |->
        LOWERCASE[CHOOSE i \in 1..Len(UPPERCASE) : UPPERCASE[i] = c]]

\* str.lower()
lower(s) ==
    [i \in 1..Len(s) |-> IF s[i] \in UppercaseLetters THEN LowerOf[s[i]] ELSE s[i]]

\* the length of the run of characters of chars that starts at position i
RECURSIVE run(_, _, _)
run(s, i, chars) ==
    IF i <= Len(s) /\ s[i] \in chars THEN 1 + run(s, i + 1, chars) ELSE 0

\* str.lstrip(chars)
lstrip(s, chars) == Suffix(s, run(s, 1, chars) + 1)

\* the first position >= i of character c in s, 0 when there is none
RECURSIVE find(_, _, _)
find(s, c, i) ==
    IF i > Len(s) THEN 0
    ELSE IF s[i] = c THEN i
    ELSE find(s, c, i + 1)

\* a split that ignores maxsplit and cuts at every slash
RECURSIVE split_all(_, _)
split_all(s, maxsplit) ==
    LET i == find(s, "/", 1)
    IN  IF i = 0
        THEN << s >>
        ELSE << SubSeq(s, 1, i - 1) >> \o split_all(Suffix(s, i + 1), maxsplit)

\* str.split("/", maxsplit): a sequence of at most maxsplit + 1 parts
RECURSIVE split(_, _)
split(s, maxsplit) ==
    LET i == find(s, "/", 1)
    IN  IF maxsplit = 0 \/ i = 0
        THEN << s >>
        ELSE << SubSeq(s, 1, i - 1) >> \o split(Suffix(s, i + 1), maxsplit - 1)

----------------------------------------------------------------------------
(* process_filer_path *)

HOME == S("home")

JOVYAN == S("jovyan")

FILER == S("filer")

FILERS == S("filers")

\* re.sub(r"\\", "/", path): every backslash becomes a slash
sub_backslash(s) == [i \in 1..Len(s) |-> IF s[i] = "\\" THEN "/" ELSE s[i]]

\* re.match(r"^[\/\.]*<word>[\/]+", s, re.IGNORECASE): the length of the
\* match, 0 when s does not match.  Both repetitions are greedy; no letter
\* of word is a slash or a dot, so the leading run is the maximal one.
match_marker(s, word) ==
    LET k == run(s, 1, {"/", "."})
        e == k + Len(word)
    IN  IF e < Len(s) /\ lower(SubSeq(s, k + 1, e)) = word /\ s[e + 1] = "/"
        THEN e + run(s, e + 1, {"/"})
        ELSE 0

\* re.sub(r"^[\/\.]*<word>[\/]+", "", s, flags=re.IGNORECASE)
sub_marker(s, word) == Suffix(s, match_marker(s, word) + 1)

\* the home rule written with [\/\.]+ : a bare leading home/ is kept
sub_home_needs_lead(s) ==
    IF run(s, 1, {"/", "."}) > 0 THEN sub_marker(s, HOME) ELSE s

sub_home(s) == sub_marker(s, HOME)

sub_jovyan(s) == sub_marker(s, JOVYAN)

\* filers{0,1}: the optional s is greedy, "filers" is tried before "filer"
sub_filers(s) ==
    IF match_marker(s, FILERS) # 0 THEN sub_marker(s, FILERS)
    ELSE sub_marker(s, FILER)

\* the last rule written with ? : at most one leading character is removed
sub_leading_one(s) == Suffix(s, (IF run(s, 1, {"/", "."}) > 0 THEN 1 ELSE 0) + 1)

\* the last rule written without the dot: only leading slashes are removed
sub_leading_slashes(s) == lstrip(s, {"/"})

\* re.sub(r"^[\/\.]*", "", s)
sub_leading(s) == lstrip(s, {"/", "."})

\* the rules applied with jovyan before home
process_filer_path_jovyan_first(p) ==
    sub_leading(sub_filers(sub_home(sub_jovyan(sub_backslash(p)))))

process_filer_path(p) ==
    sub_leading(sub_filers(sub_jovyan(sub_home(sub_backslash(p)))))

----------------------------------------------------------------------------
(* remap_filer_aliases, get_components *)

\* filer in v
contains(v, x) == \E j \in 1..Len(v) : v[j] = x

\* for k, v in FILER_ALIASES.items(): if filer in v: return k ... return filer
RECURSIVE scan(_, _)
scan(filer, i) ==
    IF i > Len(items) THEN filer
    ELSE IF contains(items[i][2], filer) THEN items[i][1]
    ELSE scan(filer, i + 1)

\* the lookup that lower-cases the input only when it is an alias
remap_keep_case(filer) ==
    IF scan(lower(filer), 1) = lower(filer) THEN filer ELSE scan(lower(filer), 1)

\* the lookup without filer.lower(): aliases are matched case-sensitively
remap_case_sensitive(filer) == scan(filer, 1)

remap_filer_aliases(filer) == scan(lower(filer), 1)

\* get_components with the two-part result misplaced: the share lands in
\* the object key position
get_components_misplaced(p) ==
    LET components == split(process_filer_path(p), 2)
        filer == remap_filer_aliases(components[1])
    IN  IF Len(components) = 0 THEN << None, None, None >>
        ELSE IF Len(components) = 1 THEN << Str(filer), None, None >>
        ELSE IF Len(components) = 2 THEN << Str(filer), None, Str(components[2]) >>
        ELSE << Str(filer), Str(components[2]), Str(lstrip(components[3], {"/"})) >>

get_components(p) ==
    LET components == split(process_filer_path(p), 2)
        filer == remap_filer_aliases(components[1])
    IN  IF Len(components) = 0 THEN << None, None, None >>
        ELSE IF Len(components) = 1 THEN << Str(filer), None, None >>
        ELSE IF Len(components) = 2 THEN << Str(filer), Str(components[2]), None >>
        ELSE << Str(filer), Str(components[2]), Str(lstrip(components[3], {"/"})) >>

----------------------------------------------------------------------------
(* os.environ and get_mc_path *)

\* a lookup that treats an empty value as unset
getenv_truthy(e, name) ==
    IF name \in DOMAIN e /\ Len(e[name]) > 0 THEN Str(e[name]) ELSE None

\* os.getenv(name)
getenv(e, name) == IF name \in DOMAIN e THEN Str(e[name]) ELSE None

\* a validation that only tests for None
missing_none_only(v) == v = None

\* v is None or len(v) == 0
missing(v) == v = None \/ Len(v[1]) = 0

\* the result string built without defaulting the object key:
\* an f-string renders None as the text None
format_no_default(filer_name, bucket, object_key) ==
    filer_name \o S("/") \o bucket \o S("/")
        \o (IF object_key = None THEN S("None") ELSE object_key[1])

\* if object_key is None: object_key = ""
\* return f"{filer_name}/{bucket}/{object_key}"
format_mc_path(filer_name, bucket, object_key) ==
    filer_name \o S("/") \o bucket \o S("/")
        \o (IF object_key = None THEN << >> ELSE object_key[1])

get_mc_path(p, e) ==
    LET components == get_components(p)
        filer_name == components[1]
        share_name == components[2]
        object_key == components[3]
    IN  IF missing(filer_name) THEN Raise("Missing filer name.")
        ELSE IF missing(share_name) THEN Raise("Missing share name.")
        ELSE LET bucket == getenv(e, filer_name[1] \o S("_") \o share_name[1])
             IN  IF bucket = None THEN Raise("Bucket for share not found.")
                 ELSE Return(format_mc_path(filer_name[1], bucket[1], object_key))

----------------------------------------------------------------------------
(* get_filer_env_config, get_all_filers *)

\* the variables that the caller sets, changes and removes between calls
LiveNames ==
    {S("taxfilersvm_url"), S("taxfilersvm_access"), S("taxfilersvm_secret"),
     S("taxfilersvm_docs")}

\* the values given to them
LiveValues == {S("bucket9"), S("bucket10")}

\* the KeyError of os.environ[name]
KeyError(name) == [status |-> "raise", value |-> Str(name), error |-> "KeyError"]

\* f"{filer_name}": an f-string renders None as the text None
fstr(v) == IF v = None THEN S("None") ELSE v[1]

\* the lookups with os.getenv for the access key: no failure when it is unset
get_filer_env_config_soft_access(p, e) ==
    LET c == get_components(p)
        url_var == fstr(c[1]) \o S("_url")
        access_var == fstr(c[1]) \o S("_access")
        secret_var == fstr(c[1]) \o S("_secret")
        bucket_var == fstr(c[1]) \o S("_") \o fstr(c[2])
    IN  IF c[1] # None /\ url_var \notin DOMAIN e THEN KeyError(url_var)
        ELSE IF c[1] # None /\ secret_var \notin DOMAIN e THEN KeyError(secret_var)
        ELSE IF c[2] # None /\ bucket_var \notin DOMAIN e THEN KeyError(bucket_var)
        ELSE Return(<< IF c[1] # None THEN Str(e[url_var]) ELSE None,
                       IF c[1] # None THEN getenv(e, access_var) ELSE None,
                       IF c[1] # None THEN Str(e[secret_var]) ELSE None,
                       IF c[2] # None THEN Str(e[bucket_var]) ELSE None,
                       c[3] >>)

\* the lookups with the bucket looked up whenever there is a filer
get_filer_env_config_always_bucket(p, e) ==
    LET c == get_components(p)
        url_var == fstr(c[1]) \o S("_url")
        access_var == fstr(c[1]) \o S("_access")
        secret_var == fstr(c[1]) \o S("_secret")
        bucket_var == fstr(c[1]) \o S("_") \o fstr(c[2])
    IN  IF c[1] # None /\ url_var \notin DOMAIN e THEN KeyError(url_var)
        ELSE IF c[1] # None /\ access_var \notin DOMAIN e THEN KeyError(access_var)
        ELSE IF c[1] # None /\ secret_var \notin DOMAIN e THEN KeyError(secret_var)
        ELSE IF c[1] # None /\ bucket_var \notin DOMAIN e THEN KeyError(bucket_var)
        ELSE Return(<< IF c[1] # None THEN Str(e[url_var]) ELSE None,
                       IF c[1] # None THEN Str(e[access_var]) ELSE None,
                       IF c[1] # None THEN Str(e[secret_var]) ELSE None,
                       IF c[1] # None THEN Str(e[bucket_var]) ELSE None,
                       c[3] >>)

\* url, access_key, secret_key, bucket_name are looked up in this order with
\* os.environ[...], which raises KeyError for a name that is not set
get_filer_env_config(p, e) ==
    LET c == get_components(p)
        url_var == fstr(c[1]) \o S("_url")
        access_var == fstr(c[1]) \o S("_access")
        secret_var == fstr(c[1]) \o S("_secret")
        bucket_var == fstr(c[1]) \o S("_") \o fstr(c[2])
    IN  IF c[1] # None /\ url_var \notin DOMAIN e THEN KeyError(url_var)
        ELSE IF c[1] # None /\ access_var \notin DOMAIN e THEN KeyError(access_var)
        ELSE IF c[1] # None /\ secret_var \notin DOMAIN e THEN KeyError(secret_var)
        ELSE IF c[2] # None /\ bucket_var \notin DOMAIN e THEN KeyError(bucket_var)
        ELSE Return(<< IF c[1] # None THEN Str(e[url_var]) ELSE None,
                       IF c[1] # None THEN Str(e[access_var]) ELSE None,
                       IF c[1] # None THEN Str(e[secret_var]) ELSE None,
                       IF c[2] # None THEN Str(e[bucket_var]) ELSE None,
                       c[3] >>)

\* s.startswith(t)
StartsWith(s, t) == Len(t) <= Len(s) /\ SubSeq(s, 1, Len(t)) = t

\* s.endswith(t)
EndsWith(s, t) == Len(t) <= Len(s) /\ Suffix(s, Len(s) - Len(t) + 1) = t

\* every character of s is one that the regex . matches
NoNewline(s) == \A i \in 1..Len(s) : s[i] # "\n"

\* the pattern without its second alternative
match_stem_filersvm(t) == EndsWith(t, S("filersvm")) /\ NoNewline(t)

\* ^(.*filersvm|st.*svm) matches the whole of t
match_stem(t) ==
    \/ EndsWith(t, S("filersvm")) /\ NoNewline(t)
    \/ Len(t) >= 5 /\ StartsWith(t, S("st")) /\ EndsWith(t, S("svm")) /\ NoNewline(t)

\* where _url$ matches in s (0: nowhere): $ matches at the end of the str
\* and also just before a newline that ends the str
url_end(s) ==
    IF EndsWith(s, S("_url")) THEN Len(s) - 3
    ELSE IF EndsWith(s, S("_url\n")) THEN Len(s) - 4
    ELSE 0

\* re.match(r"^(.*filersvm|st.*svm)_url$", s)
match_url_key(s) == url_end(s) # 0 /\ match_stem(SubSeq(s, 1, url_end(s) - 1))

\* re.sub(r"_url$", "", s)
sub_url(s) ==
    IF url_end(s) = 0 THEN s
    ELSE SubSeq(s, 1, url_end(s) - 1) \o Suffix(s, url_end(s) + 4)

\* the names that filter(...) keeps
url_keys(e) == {s \in DOMAIN e : match_url_key(s)}

\* the sequences that list every element of the set once: the orders in
\* which os.environ can iterate over them
RECURSIVE Orders(_)
Orders(set) ==
    IF set = {} THEN {<< >>}
    ELSE UNION {{<< x >> \o o : o \in Orders(set \ {x})} : x \in set}

\* the records, for url_keys in the iteration order keys
get_all_filers(e, keys) ==
    [k \in 1..Len(keys) |->
        [base |-> sub_url(keys[k]),
         url |-> getenv(e, sub_url(keys[k]) \o S("_url")),
         access_key |-> getenv(e, sub_url(keys[k]) \o S("_access")),
         secret_key |-> getenv(e, sub_url(keys[k]) \o S("_secret"))]]

----------------------------------------------------------------------------
(* check_filer_path *)

\* "/".join(comps)
RECURSIVE join_slash(_)
join_slash(comps) ==
    IF comps = << >> THEN << >>
    ELSE IF Len(comps) = 1 THEN comps[1]
    ELSE comps[1] \o S("/") \o join_slash(Tail(comps))

\* posixpath.join(a, b)
join(a, b) ==
    IF StartsWith(b, S("/")) THEN b
    ELSE IF a = << >> \/ EndsWith(a, S("/")) THEN a \o b
    ELSE a \o S("/") \o b

\* the loop of posixpath.normpath over comps[i..]: empty and . components are
\* dropped, .. removes the component before it (at the root it is dropped)
RECURSIVE new_comps(_, _, _, _)
new_comps(comps, i, acc, initial_slashes) ==
    IF i > Len(comps) THEN acc
    ELSE IF comps[i] = << >> \/ comps[i] = S(".")
        THEN new_comps(comps, i + 1, acc, initial_slashes)
    ELSE IF \/ comps[i] # S("..")
            \/ (initial_slashes = 0 /\ acc = << >>)
            \/ (acc # << >> /\ acc[Len(acc)] = S(".."))
        THEN new_comps(comps, i + 1, Append(acc, comps[i]), initial_slashes)
    ELSE IF acc # << >>
        THEN new_comps(comps, i + 1, SubSeq(acc, 1, Len(acc) - 1), initial_slashes)
    ELSE new_comps(comps, i + 1, acc, initial_slashes)

\* posixpath.normpath(p)
normpath(p) ==
    IF p = << >> THEN S(".")
    ELSE LET initial_slashes ==
                 IF ~StartsWith(p, S("/")) THEN 0
                 ELSE IF StartsWith(p, S("//")) /\ ~StartsWith(p, S("///")) THEN 2
                 ELSE 1
             joined == join_slash(new_comps(split(p, Len(p)), 1, << >>, initial_slashes))
             r == SubSeq(S("//"), 1, initial_slashes) \o joined
         IN  IF r = << >> THEN S(".") ELSE r

\* os.path.abspath(p), the current working directory being wd
abspath(p, wd) == IF StartsWith(p, S("/")) THEN normpath(p) ELSE normpath(join(wd, p))

\* the mount root of the filers
MOUNT == S("/home/jovyan/filers/")

\* the test without the UNC case
check_filer_path_no_unc(p, wd) == StartsWith(abspath(sub_backslash(p), wd), MOUNT)

\* path = re.sub(r"\\", "/", path); True if it begins with //, else whether
\* os.path.abspath(path) begins with /home/jovyan/filers/
check_filer_path(p, wd) ==
    \/ StartsWith(sub_backslash(p), S("//"))
    \/ StartsWith(abspath(sub_backslash(p), wd), MOUNT)

----------------------------------------------------------------------------
(* tests/general/wait_utils.py: wait_for_condition, wait_for_exec_success *)
(* Times are whole ticks; elapsed is time.time() - start_time.             *)

\* the frame of a call with the given arguments, before its first statement;
\* condition_func is "never" true, "always" true or true at "any" poll
Frame(timeout, initial_delay, max_delay, exponential_base, jitter, condition) ==
    [pc |-> "idle",
     timeout |-> timeout,
     initial_delay |-> initial_delay,
     max_delay |-> max_delay,
     exponential_base |-> exponential_base,
     jitter |-> jitter,
     condition |-> condition,
     elapsed |-> 0,
     current_delay |-> 0,
     polls |-> 0,            \* how often condition_func has been called
     poll_at |-> 0,          \* elapsed at the loop test before the last call
     poll_value |-> FALSE,   \* what the last call returned
     met |-> FALSE,          \* some call has returned a true value
     sleeps |-> 0,           \* how often a sleep time has been computed
     sleep_time |-> 0,       \* the last one
     remaining_time |-> 0,   \* the time that remained when it was computed
     returned |-> FALSE]

\* no call of wait_for_condition
WaitIdle == Frame(0, 0, 0, 1, FALSE, "never")

\* min(a, b)
min(a, b) == IF a <= b THEN a ELSE b

\* the values of random.uniform(0.8, 1.2), in tenths
JitterFactors == {8, 10, 12}

\* how long line 51 takes, and how long a call of condition_func takes
StartTimes == {0, 1}

PollTimes == {1, 3}

\* what condition_func may return
Values(condition) ==
    IF condition = "never" THEN {FALSE}
    ELSE IF condition = "always" THEN {TRUE}
    ELSE BOOLEAN

\* success_result[1] of wait_for_exec_success: the output of the last run of
\* the command, None when the command was never run
output(w) == IF w.polls = 0 THEN None ELSE Str(S("output"))

\* what the caller gets: satisfied, or (satisfied, success_result[1])
Returned(name, w, satisfied) ==
    IF name = "wait_for_exec_success" THEN Return(<< satisfied, output(w) >>)
    ELSE Return(satisfied)

\* start_time = time.time(); current_delay = initial_delay
WaitStart ==
    /\ op = "none"
    /\ wait.pc = "idle"
    /\ \E name \in {"wait_for_condition", "wait_for_exec_success"} : op' = name
    /\ \E t \in StartTimes :
        wait' = [wait EXCEPT !.pc = "while", !.elapsed = t,
                             !.current_delay = wait.initial_delay]
    /\ UNCHANGED << path, env, cwd, result, initvars >>

\* a loop body that does not return on a true value
PollWithoutReturn ==
    /\ wait.pc = "while"
    /\ wait.elapsed < wait.timeout
    /\ \E v \in Values(wait.condition), d \in PollTimes :
        wait' = [wait EXCEPT !.polls = wait.polls + 1, !.poll_at = wait.elapsed,
                             !.poll_value = v, !.met = wait.met \/ v,
                             !.elapsed = wait.elapsed + d, !.pc = "delay"]
    /\ UNCHANGED << path, env, cwd, op, result, initvars >>

\* while time.time() - start_time < timeout: if condition_func(): return True
Poll ==
    /\ wait.pc = "while"
    /\ wait.elapsed < wait.timeout
    /\ \E v \in Values(wait.condition), d \in PollTimes :
        LET w == [wait EXCEPT !.polls = wait.polls + 1, !.poll_at = wait.elapsed,
                              !.poll_value = v, !.met = wait.met \/ v,
                              !.elapsed = wait.elapsed + d]
        IN  IF v
            THEN /\ wait' = [w EXCEPT !.pc = "done", !.returned = TRUE]
                 /\ result' = Returned(op, w, TRUE)
            ELSE /\ wait' = [w EXCEPT !.pc = "delay"]
                 /\ UNCHANGED result
    /\ UNCHANGED << path, env, cwd, op, initvars >>

\* next_delay = min(current_delay, max_delay), times jitter_factor;
\* sleep_time = min(next_delay, remaining_time); time.sleep(sleep_time) if it
\* is positive; current_delay *= exponential_base
Sleep ==
    /\ wait.pc = "delay"
    /\ \E jitter_factor \in (IF wait.jitter THEN JitterFactors ELSE {10}) :
        LET next_delay == (min(wait.current_delay, wait.max_delay) * jitter_factor) \div 10
            remaining_time == wait.timeout - wait.elapsed
            sleep_time == min(next_delay, remaining_time)
        IN  wait' = [wait EXCEPT
                        !.sleeps = wait.sleeps + 1,
                        !.sleep_time = sleep_time,
                        !.remaining_time = remaining_time,
                        !.elapsed = wait.elapsed + (IF sleep_time > 0 THEN sleep_time ELSE 0),
                        !.current_delay = wait.current_delay * wait.exponential_base,
                        !.pc = "while"]
    /\ UNCHANGED << path, env, cwd, op, result, initvars >>

\* the loop test fails: return False
Timeout ==
    /\ wait.pc = "while"
    /\ ~(wait.elapsed < wait.timeout)
    /\ wait' = [wait EXCEPT !.pc = "done", !.returned = FALSE]
    /\ result' = Returned(op, wait, FALSE)
    /\ UNCHANGED << path, env, cwd, op, initvars >>

----------------------------------------------------------------------------
(* Inputs *)

\* the working directory of the calls that do not depend on it
ROOT == S("/")

\* the longest input path, counted in atoms
MaxAtoms == 4

\* the longest path handed to get_mc_path, counted in atoms
MaxMcAtoms == 3

\* the strs made of at most n atoms
RECURSIVE Concat(_, _)
Concat(atoms, n) ==
    IF n = 0 THEN {<< >>}
    ELSE LET shorter == Concat(atoms, n - 1)
         IN  shorter \cup {a \o s : a \in atoms, s \in shorter}

\* separators, the mount markers (one in mixed case and without its slash),
\* an alias of taxfilersvm and a plain name
Atoms ==
    {S("/"), S("\\"), S("."), S("Home"), S("jovyan/"), S("filers/"), S("filer/"),
     S("TaxAdmin/"), S("docs")}

Paths == Concat(Atoms, MaxAtoms)

\* separators, aliases of taxfilersvm and fld3filersvm, two shares and a key
McAtoms ==
    {S("/"), S("\\"), S("taxadmin/"), S("FLD3FILE1/"), S("fld3file1"), S("docs/"),
     S("shareA"), S("report.pdf")}

McPaths == Concat(McAtoms, MaxMcAtoms)

EnvNames == {S("taxfilersvm_docs"), S("fld3filersvm_shareA")}

EnvValues == {S("bucket9"), S("")}

\* the environments: some of the names are set, each to some value
Envs == UNION {[names -> EnvValues] : names \in SUBSET EnvNames}

----------------------------------------------------------------------------
(* The calls *)

\* init_all_filers has not been called
InitIdle ==
    /\ pc = "idle"
    /\ filers = << >>
    /\ invoked = << >>
    /\ codes = << >>
    /\ marker = None
    /\ fs = "ok"

CallProcessFilerPath ==
    /\ op = "none"
    /\ op' = "process_filer_path"
    /\ result' = Return(process_filer_path(path))
    /\ UNCHANGED << path, env, cwd, wait, initvars >>

CallGetComponents ==
    /\ op = "none"
    /\ op' = "get_components"
    /\ result' = Return(get_components(path))
    /\ UNCHANGED << path, env, cwd, wait, initvars >>

\* a call that hands back what the call before it produced
CallGetMcPathCached ==
    /\ op = "none"
    /\ op' = "get_mc_path"
    /\ result' = (IF result.status = "return" /\ result.value # None THEN result
                  ELSE get_mc_path(path, env))
    /\ UNCHANGED << path, env, cwd, wait, initvars >>

CallGetMcPath ==
    /\ op = "none"
    /\ op' = "get_mc_path"
    /\ result' = get_mc_path(path, env)
    /\ UNCHANGED << path, env, cwd, wait, initvars >>

CallRemapFilerAliases ==
    /\ op = "none"
    /\ op' = "remap_filer_aliases"
    /\ result' = Return(remap_filer_aliases(path))
    /\ UNCHANGED << path, env, cwd, wait, initvars >>

CallGetFilerEnvConfig ==
    /\ op = "none"
    /\ op' = "get_filer_env_config"
    /\ result' = get_filer_env_config(path, env)
    /\ UNCHANGED << path, env, cwd, wait, initvars >>

CallGetAllFilers ==
    /\ op = "none"
    /\ op' = "get_all_filers"
    /\ \E keys \in Orders(url_keys(env)) :
        result' = Return(get_all_filers(env, keys))
    /\ UNCHANGED << path, env, cwd, wait, initvars >>

\* the caller sets or changes a variable after a call: os.environ[name] = value
Putenv ==
    /\ op # "none"
    /\ \E name \in LiveNames, value \in LiveValues :
        /\ name \in DOMAIN env => env[name] # value
        /\ env' = [n \in DOMAIN env \cup {name} |-> IF n = name THEN value ELSE env[n]]
    /\ op' = "none"
    /\ UNCHANGED << path, cwd, wait, result, initvars >>

\* the caller removes a variable after a call: del os.environ[name]
Unsetenv ==
    /\ op # "none"
    /\ \E name \in DOMAIN env : env' = [n \in DOMAIN env \ {name} |-> env[n]]
    /\ op' = "none"
    /\ UNCHANGED << path, cwd, wait, result, initvars >>

\* filers = get_all_filers()
InitAllFilers ==
    /\ op = "none"
    /\ pc = "idle"
    /\ op' = "init_all_filers"
    /\ \E keys \in Orders(url_keys(env)) : filers' = get_all_filers(env, keys)
    /\ pc' = "loop"
    /\ UNCHANGED << path, env, cwd, wait, result, invoked, codes, marker, fs >>

\* the argument list of the command for the record filer
command(filer) ==
    << S("mc"), S("alias"), S("set"), filer.base,
       filer.url[1], filer.access_key[1], filer.secret_key[1] >>

\* r = subprocess.run(["mc", "alias", "set", ...], check=False, ...) for the
\* next filer: an argument that is None makes it raise TypeError before any
\* command is started (mc itself is taken to be installed)
SubprocessRun ==
    /\ pc = "loop"
    /\ Len(codes) < Len(filers)
    /\ LET filer == filers[Len(codes) + 1]
       IN  IF filer.url = None \/ filer.access_key = None \/ filer.secret_key = None
           THEN /\ pc' = "raised"
                /\ result' = Raise("TypeError")
                /\ UNCHANGED << invoked, codes >>
           ELSE /\ invoked' = Append(invoked, command(filer))
                /\ pc' = "running"
                /\ UNCHANGED << result, codes >>
    /\ UNCHANGED << path, env, cwd, wait, op, filers, marker, fs >>

\* the exit statuses of mc
ExitCodes == {0, 1}

\* the command returns; with check=False its status raises nothing
SubprocessReturn ==
    /\ pc = "running"
    /\ \E returncode \in ExitCodes : codes' = Append(codes, returncode)
    /\ pc' = "loop"
    /\ UNCHANGED << path, env, cwd, wait, op, result, filers, invoked, marker, fs >>

\* the marker step without the except clause: the OSError propagates
WriteMarkerUncaught ==
    /\ pc = "loop"
    /\ Len(codes) = Len(filers)
    /\ IF fs = "ok"
       THEN marker' = Str(S("Done mc init.")) /\ pc' = "done" /\ result' = Return(None)
       ELSE /\ marker' = (IF fs = "full" THEN Str(<< >>) ELSE marker)
            /\ pc' = "raised"
            /\ result' = Raise("OSError")
    /\ UNCHANGED << path, env, cwd, wait, op, filers, invoked, codes, fs >>

\* after the loop: open(indicate_done_file, "wb") and f.write(b"Done mc init.")
\* inside try ... except OSError.  open fails when the file system denies
\* it; when the file system is full the file is created and the write fails.
WriteMarker ==
    /\ pc = "loop"
    /\ Len(codes) = Len(filers)
    /\ marker' = (IF fs = "ok" THEN Str(S("Done mc init."))
                  ELSE IF fs = "full" THEN Str(<< >>)
                  ELSE marker)
    /\ pc' = "done"
    /\ result' = Return(None)
    /\ UNCHANGED << path, env, cwd, wait, op, filers, invoked, codes, fs >>

CallCheckFilerPath ==
    /\ op = "none"
    /\ op' = "check_filer_path"
    /\ result' = Return(check_filer_path(path, cwd))
    /\ UNCHANGED << path, env, cwd, wait, initvars >>

\* the path functions, on every path
InitPath ==
    /\ path \in Paths
    /\ env = << >>
    /\ cwd = ROOT
    /\ wait = WaitIdle
    /\ op = "none"
    /\ result = Return(None)
    /\ InitIdle

NextPath == CallProcessFilerPath \/ CallGetComponents

SpecPath == InitPath /\ [][NextPath]_vars

\* a home marker, then a jovyan marker, then a filer(s) marker, each after a
\* run of / . \ and before one or more slashes or backslashes, then a remainder
MarkerRuns == {S(""), S("./"), S("\\")}

MarkerSlashes == {S("/"), S("//"), S("\\")}

HomeMarkers == {S("home"), S("HoMe")}

FilerMarkers == {S("filer"), S("filers"), S("FILERS")}

Remainders == {S("x"), S("/.x"), S("a\\b"), S("home/x"), S("")}

MarkerPaths ==
    {r1 \o h \o s1 \o r2 \o S("jovyan") \o s2 \o r3 \o f \o s3 \o rest :
        r1 \in MarkerRuns, r2 \in MarkerRuns, r3 \in MarkerRuns,
        s1 \in MarkerSlashes, s2 \in MarkerSlashes, s3 \in MarkerSlashes,
        h \in HomeMarkers, f \in FilerMarkers, rest \in Remainders}

\* process_filer_path, on the paths that carry all three markers
InitOrder ==
    /\ path \in MarkerPaths
    /\ env = << >>
    /\ cwd = ROOT
    /\ wait = WaitIdle
    /\ op = "none"
    /\ result = Return(None)
    /\ InitIdle

NextOrder == CallProcessFilerPath

SpecOrder == InitOrder /\ [][NextOrder]_vars

\* x.upper() of an ASCII name
upper(s) ==
    [i \in 1..Len(s) |->
        IF \E j \in 1..Len(LOWERCASE) : LOWERCASE[j] = s[i]
        THEN UPPERCASE[CHOOSE j \in 1..Len(LOWERCASE) : LOWERCASE[j] = s[i]]
        ELSE s[i]]

\* x.capitalize() of a lower-case ASCII name
capitalize(s) == IF s = << >> THEN s ELSE upper(SubSeq(s, 1, 1)) \o Suffix(s, 2)

\* every key and every alternate name of the alias table
AliasEntries ==
    UNION {{canonical(i)} \cup {alternates(i)[j] : j \in 1..Len(alternates(i))} :
           i \in 1..Len(FILER_ALIASES)}

\* names that are in no list of the table
UnknownNames == {S(""), S("unknown"), S("Docs"), S("taxadmin/"), S("tax admin"), S("FLD3")}

\* the table's entries in lower, upper and mixed case, and unknown names
Names ==
    AliasEntries \cup {upper(x) : x \in AliasEntries}
        \cup {capitalize(x) : x \in AliasEntries} \cup UnknownNames

\* remap_filer_aliases, on every name
InitAlias ==
    /\ path \in Names
    /\ env = << >>
    /\ cwd = ROOT
    /\ wait = WaitIdle
    /\ op = "none"
    /\ result = Return(None)
    /\ InitIdle

NextAlias == CallRemapFilerAliases

SpecAlias == InitAlias /\ [][NextAlias]_vars

\* the paths handed to get_filer_env_config
ConfigPaths ==
    {S("taxadmin/docs/report.pdf"), S("TaxFiler/docs"), S("taxadmin"), S(""),
     S("stcffb03/docs/x"), S("/home/jovyan/filers/taxadmin/docs/a/b")}

\* the names of the environment variables: the url, credentials and a bucket
\* of taxfilersvm, a second filer without a secret key, a url name in upper
\* case and a url name that ends with a newline
ConfigNames ==
    {S("taxfilersvm_url"), S("taxfilersvm_access"), S("taxfilersvm_secret"),
     S("taxfilersvm_docs"), S("stcffb03svm_url"), S("stcffb03svm_access"),
     S("stcffb03svm_secret"),
     S("TAXFILERSVM_url"), S("taxfilersvm_url\n")}

\* a value that tells which variable it was read from
ValueOf(name) == S("value of ") \o name

\* the environments: any subset of the names is set
ConfigEnvs == {[n \in names |-> ValueOf(n)] : names \in SUBSET ConfigNames}

\* the configuration lookups, on every path and environment
InitEnv ==
    /\ path \in ConfigPaths
    /\ env \in ConfigEnvs
    /\ cwd = ROOT
    /\ wait = WaitIdle
    /\ op = "none"
    /\ result = Return(None)
    /\ InitIdle

NextEnv == CallGetFilerEnvConfig \/ CallGetAllFilers

SpecEnv == InitEnv /\ [][NextEnv]_vars

\* what can happen to the write of the done-indicator file
FileSystems == {"ok", "denied", "full"}

\* init_all_filers, in every environment and on every file system
InitFilers ==
    /\ path = << >>
    /\ env \in ConfigEnvs
    /\ cwd = ROOT
    /\ wait = WaitIdle
    /\ op = "none"
    /\ result = Return(None)
    /\ pc = "idle"
    /\ filers = << >>
    /\ invoked = << >>
    /\ codes = << >>
    /\ marker = None
    /\ fs \in FileSystems

NextFilers == InitAllFilers \/ SubprocessRun \/ SubprocessReturn \/ WriteMarker

SpecFilers == InitFilers /\ [][NextFilers]_vars

\* calls interleaved with changes of the environment, which is empty at first
InitLive ==
    /\ path \in {S("taxadmin/docs/report.pdf"), S("TaxFiler/docs")}
    /\ env = << >>
    /\ cwd = ROOT
    /\ wait = WaitIdle
    /\ op = "none"
    /\ result = Return(None)
    /\ InitIdle

NextLive ==
    CallGetMcPath \/ CallGetFilerEnvConfig \/ CallGetAllFilers \/ Putenv \/ Unsetenv

SpecLive == InitLive /\ [][NextLive]_vars

\* the longest path handed to check_filer_path, counted in atoms
MaxFpAtoms == 3

FpAtoms ==
    {S("/"), S("\\"), S("../"), S("./"), S("x"), S("filers"),
     S("/home/jovyan/filers"), S("\\home\\jovyan\\filers\\")}

FpPaths == Concat(FpAtoms, MaxFpAtoms)

\* the working directories
Cwds ==
    {S("/"), S("/tmp"), S("/home/jovyan"), S("/home/jovyan/filers"),
     S("/home/jovyan/filers/x")}

\* check_filer_path, on every path and in every working directory
InitCheck ==
    /\ path \in FpPaths
    /\ env = << >>
    /\ cwd \in Cwds
    /\ wait = WaitIdle
    /\ op = "none"
    /\ result = Return(None)
    /\ InitIdle

NextCheck == CallCheckFilerPath

SpecCheck == InitCheck /\ [][NextCheck]_vars

\* the arguments of wait_for_condition, in ticks; delays are multiples of 5
\* so that the jitter factors give whole ticks
Timeouts == {-5, 0, 1, 7, 12}

Delays == {0, 5, 10}

MaxDelays == {5, 10}

Bases == {1, 2}

Frames ==
    {Frame(timeout, initial_delay, max_delay, exponential_base, jitter, condition) :
        timeout \in Timeouts, initial_delay \in Delays, max_delay \in MaxDelays,
        exponential_base \in Bases, jitter \in BOOLEAN,
        condition \in {"never", "always", "any"}}

\* wait_for_condition, for every choice of arguments
InitWait ==
    /\ path = << >>
    /\ env = << >>
    /\ cwd = ROOT
    /\ wait \in Frames
    /\ op = "none"
    /\ result = Return(None)
    /\ InitIdle

NextWait == WaitStart \/ Poll \/ Sleep \/ Timeout

SpecWait == InitWait /\ [][NextWait]_vars

\* the same, every step that can be taken being taken eventually:
\* time passes and the calls of condition_func return
FairWait == SpecWait /\ WF_vars(NextWait)

\* init_all_filers when it is called, its steps are taken and every command
\* that was started returns
FairFilers ==
    /\ SpecFilers
    /\ WF_vars(InitAllFilers)
    /\ WF_vars(SubprocessRun)
    /\ WF_vars(SubprocessReturn)
    /\ WF_vars(WriteMarker)

\* the names of the i-th entry, each alone and followed by a share and a key
AliasPaths(i) ==
    LET names == {canonical(i)} \cup {alternates(i)[j] : j \in 1..Len(alternates(i))}
    IN  names \cup {n \o S("/share/key") : n \in names}

\* the environments that define the url of the i-th canonical name, with or
\* without its access key, another filer's url and a name in upper case
DiscoverEnvs(i) ==
    {[n \in {canonical(i) \o S("_url")} \cup names |-> ValueOf(n)] :
        names \in SUBSET {canonical(i) \o S("_access"), S("taxfilersvm_url"),
                          S("TAXFILERSVM_url")}}

\* discovery and path resolution, for every entry of the alias table
InitDiscover ==
    /\ \E i \in 1..Len(FILER_ALIASES) : path \in AliasPaths(i) /\ env \in DiscoverEnvs(i)
    /\ cwd = ROOT
    /\ wait = WaitIdle
    /\ op = "none"
    /\ result = Return(None)
    /\ InitIdle

NextDiscover == CallGetAllFilers \/ CallGetComponents

SpecDiscover == InitDiscover /\ [][NextDiscover]_vars

\* get_mc_path, on every path and environment
Init ==
    /\ path \in McPaths
    /\ env \in Envs
    /\ cwd = ROOT
    /\ wait = WaitIdle
    /\ op = "none"
    /\ result = Return(None)
    /\ InitIdle

Next == CallGetMcPath

Spec == Init /\ [][Next]_vars

----------------------------------------------------------------------------
(* get_mc_path *)

\* the environment variable that names the bucket of (filer, share)
BucketVar(c) == c[1][1] \o S("_") \o c[2][1]

\* the path has a non-empty filer and a non-empty share
HasFilerAndShare(c) ==
    /\ c[1] # None /\ Len(c[1][1]) > 0
    /\ c[2] # None /\ Len(c[2][1]) > 0

\* C1: when the path has a non-empty filer and share and the variable
\* {canonical filer}_{share} is set to B, get_mc_path returns exactly
\* {canonical filer}/B/{object key}, the key being empty when the path has no
\* third segment; taxadmin/docs/report.pdf with taxfilersvm_docs=bucket9
\* gives taxfilersvm/bucket9/report.pdf.
C1_McPathShape ==
    op = "get_mc_path" =>
        LET c == get_components(path)
        IN  /\ (HasFilerAndShare(c) /\ BucketVar(c) \in DOMAIN env) =>
                result = Return(c[1][1] \o S("/") \o env[BucketVar(c)] \o S("/")
                                \o (IF c[3] = None THEN << >> ELSE c[3][1]))
            /\ ( /\ path = S("taxadmin/docs/report.pdf")
                 /\ S("taxfilersvm_docs") \in DOMAIN env
                 /\ env[S("taxfilersvm_docs")] = S("bucket9") ) =>
                result = Return(S("taxfilersvm/bucket9/report.pdf"))
            /\ ( /\ path = S("taxadmin/docs")
                 /\ S("taxfilersvm_docs") \in DOMAIN env
                 /\ env[S("taxfilersvm_docs")] = S("bucket9") ) =>
                result = Return(S("taxfilersvm/bucket9/"))

C1_Witness ==
    /\ op = "get_mc_path"
    /\ path = S("taxadmin/docs/report.pdf")
    /\ result = Return(S("taxfilersvm/bucket9/report.pdf"))

\* the normalized path is a bare filer, or its second segment is empty
ShareMissing(n) ==
    LET i == find(n, "/", 1)
    IN  Len(n) > 0 /\ (i = 0 \/ i = Len(n) \/ n[i + 1] = "/")

\* C2 as stated: get_mc_path raises the missing-share error, whatever the
\* environment contains, for every path whose share component is None or the
\* empty str.
C2_Original ==
    op = "get_mc_path" =>
        LET c == get_components(path)
        IN  (c[2] = None \/ c[2] = Str(<< >>)) =>
                result = Raise("Missing share name.")

\* C2 (amended): get_mc_path raises the missing-share error, whatever the
\* environment contains, for every path with a non-empty filer whose share
\* component is None or the empty str, that is for a bare filer with no
\* share segment and for a path whose second segment is empty; no bucket
\* lookup result is returned.
C2_MissingShare ==
    op = "get_mc_path" =>
        LET c == get_components(path)
        IN  /\ ( /\ c[1] # None /\ c[1] # Str(<< >>)
                 /\ (c[2] = None \/ c[2] = Str(<< >>)) ) =>
                result = Raise("Missing share name.")
            /\ ShareMissing(process_filer_path(path)) =>
                result = Raise("Missing share name.")

C2_Witness ==
    /\ op = "get_mc_path"
    /\ path = S("FLD3FILE1//shareA")
    /\ DOMAIN env = EnvNames
    /\ result = Raise("Missing share name.")

\* C2 also covers the bare filer
C2_BareFilerReached ==
    /\ op = "get_mc_path"
    /\ path = S("fld3file1")
    /\ result = Raise("Missing share name.")

\* C3: for a path with non-empty filer and share, get_mc_path raises the
\* bucket-not-found error if and only if the environment has no variable
\* {canonical filer}_{share}; when the variable exists, with any value, it
\* returns a path.
C3_BucketNotFound ==
    op = "get_mc_path" =>
        LET c == get_components(path)
        IN  HasFilerAndShare(c) =>
                /\ result = Raise("Bucket for share not found.")
                       <=> BucketVar(c) \notin DOMAIN env
                /\ BucketVar(c) \in DOMAIN env => result.status = "return"

C3_Witness ==
    /\ op = "get_mc_path"
    /\ path = S("FLD3FILE1/shareA")
    /\ DOMAIN env = {S("taxfilersvm_docs")}
    /\ result = Raise("Bucket for share not found.")

\* C3 also covers a variable set to the empty string
C3_EmptyValueReached ==
    /\ op = "get_mc_path"
    /\ path = S("taxadmin/docs/")
    /\ S("taxfilersvm_docs") \in DOMAIN env
    /\ env[S("taxfilersvm_docs")] = << >>
    /\ result = Return(S("taxfilersvm//"))

----------------------------------------------------------------------------
(* get_components *)

Range(s) == {s[i] : i \in 1..Len(s)}

\* t is the tail end of s
IsSuffix(t, s) == Len(t) <= Len(s) /\ t = Suffix(s, Len(s) - Len(t) + 1)

\* name is an alternate name of some entry of the alias table
IsAlternate(name) == \E i \in 1..Len(items) : contains(items[i][2], name)

\* the canonical name of the entry that lists name as an alternate
CanonicalOf(name) ==
    items[CHOOSE i \in 1..Len(items) : contains(items[i][2], name)][1]

\* p, with \ read as /, begins with a run of / and . and then a home, jovyan,
\* filer or filers segment (in any case) followed by a slash
BeginsWithMarker(p) ==
    \E word \in {HOME, JOVYAN, FILER, FILERS} :
        match_marker(sub_backslash(p), word) # 0

\* the position of the first slash of p, and of the second
Slash1(p) == find(p, "/", 1)

Slash2(p) == IF Slash1(p) = 0 THEN 0 ELSE find(p, "/", Slash1(p) + 1)

\* path is A/S/K, A is an alternate name in any case and S is not empty
IsAliasShareKey(p) ==
    /\ Slash1(p) > 1
    /\ Slash2(p) > Slash1(p) + 1
    /\ IsAlternate(lower(SubSeq(p, 1, Slash1(p) - 1)))

\* C4 as stated: for every path A/S/K with A any case variant of an alternate
\* name of C and S non-empty, get_components returns (C, S, K'), S verbatim
\* and K' being K with only its leading slashes removed.
C4_Original ==
    (op = "get_components" /\ IsAliasShareKey(path)) =>
        result.value =
            << Str(CanonicalOf(lower(SubSeq(path, 1, Slash1(path) - 1)))),
               Str(SubSeq(path, Slash1(path) + 1, Slash2(path) - 1)),
               Str(lstrip(Suffix(path, Slash2(path) + 1), {"/"})) >>

\* C4 (amended): for every path A/S/K with A any case variant of an alternate
\* name of C and S non-empty and free of backslashes, get_components returns
\* (C, S, K'): the filer is alias-resolved, the share is returned verbatim,
\* and K' is K with its backslashes replaced by slashes and then its leading
\* slashes removed.  Every alternate name of the table resolves this way.
C4_AliasShareKey ==
    op = "get_components" =>
        /\ (IsAliasShareKey(path)
              /\ "\\" \notin Range(SubSeq(path, Slash1(path) + 1, Slash2(path) - 1))) =>
            result.value =
                << Str(CanonicalOf(lower(SubSeq(path, 1, Slash1(path) - 1)))),
                   Str(SubSeq(path, Slash1(path) + 1, Slash2(path) - 1)),
                   Str(lstrip(sub_backslash(Suffix(path, Slash2(path) + 1)), {"/"})) >>
        /\ path = S("TaxAdmin/docs") =>
            \A i \in 1..Len(items) : \A j \in 1..Len(items[i][2]) :
                get_components(items[i][2][j] \o S("/Docs/a\\b"))
                    = << Str(items[i][1]), Str(S("Docs")), Str(S("a/b")) >>

C4_Witness ==
    /\ op = "get_components"
    /\ path = S("TaxAdmin/TaxAdmin/\\docs")
    /\ result.value = << Str(S("taxfilersvm")), Str(S("TaxAdmin")), Str(S("docs")) >>

\* C5: for every path p that does not itself begin with a mount marker,
\* get_components("home/" + p) equals get_components(p).
C5_HomeStripped ==
    (op = "get_components" /\ ~BeginsWithMarker(path)) =>
        get_components(S("home/") \o path) = result.value

C5_Witness ==
    /\ op = "get_components"
    /\ path = S("/TaxAdmin/docs")
    /\ ~BeginsWithMarker(path)
    /\ result.value = << Str(S("taxfilersvm")), Str(S("docs")), None >>
    /\ get_components(S("home/") \o path) = result.value

\* C6: when the path is empty after normalization, get_components returns
\* (None, None, None).
C6_RootIsNone ==
    (op = "get_components" /\ Len(process_filer_path(path)) = 0) =>
        result.value = << None, None, None >>

\* C7: the triple is populated left to right: no share without a filer and
\* no object key without a share.
C7_LeftToRight ==
    op = "get_components" =>
        /\ result.value[1] = None => result.value[2] = None
        /\ result.value[2] = None => result.value[3] = None

C7_Witness ==
    /\ op = "get_components"
    /\ path = S("/Home/TaxAdmin/")
    /\ result.value[1] # None /\ result.value[2] # None /\ result.value[3] = None

\* C8: the object key is the whole remainder of the normalized path after its
\* second slash, less its leading slashes only: it keeps its internal
\* slashes, and when nothing is left it is the empty str, not None; with
\* fewer than two slashes there is no object key.
C8_KeyIsRemainder ==
    op = "get_components" =>
        LET n == process_filer_path(path)
            rest == Suffix(n, Slash2(n) + 1)
        IN  IF Slash2(n) = 0 THEN result.value[3] = None
            ELSE /\ result.value[2] = Str(SubSeq(n, Slash1(n) + 1, Slash2(n) - 1))
                 /\ result.value[3] # None
                 /\ IsSuffix(result.value[3][1], rest)
                 /\ Range(SubSeq(rest, 1, Len(rest) - Len(result.value[3][1]))) \subseteq {"/"}
                 /\ result.value[3][1] # << >> => result.value[3][1][1] # "/"

C8_Witness ==
    /\ op = "get_components"
    /\ path = S("TaxAdmin/docs//")
    /\ result.value = << Str(S("taxfilersvm")), Str(S("docs")), Str(<< >>) >>

\* C8 also covers a key that keeps its internal slashes
C8_InternalSlashesReached ==
    /\ op = "get_components"
    /\ path = S("TaxAdmin/TaxAdmin/jovyan/docs")
    /\ result.value[3] = Str(S("jovyan/docs"))

----------------------------------------------------------------------------
(* process_filer_path *)

\* C9 as stated: process_filer_path is idempotent on every path.
C9_Original ==
    op = "process_filer_path" =>
        process_filer_path(result.value) = result.value

\* C9 (amended): a second pass of process_filer_path changes the result of
\* the first exactly when that result still begins with a mount marker
\* (home/home/x gives home/x, and then x); on every other path
\* process_filer_path is idempotent.
C9_IdempotentUnlessMarker ==
    op = "process_filer_path" =>
        (process_filer_path(result.value) = result.value
            <=> ~BeginsWithMarker(result.value))

C9_Witness ==
    /\ op = "process_filer_path"
    /\ path = S("Home/jovyan/docs")
    /\ result.value = S("docs")
    /\ process_filer_path(result.value) = result.value

\* the output has no leading slash or dot
NoLeadingSlashOrDot(s) == s = << >> \/ s[1] \notin {"/", "."}

\* C10 as stated: the output has no leading / or . character, does not begin
\* with a mount prefix, and is the part of the input after the stripped
\* prefix, unchanged (the input being read with / for \).
C10_Original ==
    op = "process_filer_path" =>
        /\ NoLeadingSlashOrDot(result.value)
        /\ ~BeginsWithMarker(result.value)
        /\ IsSuffix(result.value, sub_backslash(path))

\* C10 (amended): the output has no leading / or . character; it is the tail
\* of the input with every backslash replaced by a slash, nothing else in it
\* being changed; and it begins with a mount prefix only when a mount prefix
\* was already stripped in front of it (each marker is stripped at most once,
\* in the order home, jovyan, filer(s)).
C10_OutputShape ==
    op = "process_filer_path" =>
        /\ NoLeadingSlashOrDot(result.value)
        /\ IsSuffix(result.value, sub_backslash(path))
        /\ BeginsWithMarker(result.value) =>
               Len(result.value) < Len(lstrip(sub_backslash(path), {"/", "."}))

C10_Witness ==
    /\ op = "process_filer_path"
    /\ path = S("filers/docs//")
    /\ result.value = S("docs//")

\* the position that follows a marker found at position i of p: a run of
\* / . \ , then word in any case, then one or more / or \ ; 0 when p does not
\* continue that way
AfterMarker(p, i, word) ==
    LET k == i + run(p, i, {"/", ".", "\\"})
        e == k + Len(word) - 1
    IN  IF e < Len(p) /\ lower(SubSeq(p, k, e)) = word /\ p[e + 1] \in {"/", "\\"}
        THEN e + 1 + run(p, e + 1, {"/", "\\"})
        ELSE 0

\* where the remainder R starts in a path made of a home marker, a jovyan
\* marker, a filer or filers marker and R; 0 for any other path
RemainderStart(p) ==
    LET a == AfterMarker(p, 1, HOME)
        b == IF a = 0 THEN 0 ELSE AfterMarker(p, a, JOVYAN)
    IN  IF b = 0 THEN 0
        ELSE IF AfterMarker(p, b, FILERS) # 0 THEN AfterMarker(p, b, FILERS)
        ELSE AfterMarker(p, b, FILER)

\* C11 as stated: for a path made of a home, a jovyan and a filer(s) marker
\* followed by a remainder R, the result is R with its leading / and .
\* characters removed.
C11_Original ==
    (op = "process_filer_path" /\ RemainderStart(path) # 0) =>
        result.value = lstrip(Suffix(path, RemainderStart(path)), {"/", "."})

\* C11 (amended): the rules are applied in the order backslash replacement,
\* home, jovyan, filer(s), leading dots and slashes, so for a path made of a
\* home, a jovyan and a filer(s) marker followed by a remainder R the result
\* is R with its backslashes replaced by slashes and then its leading / and .
\* characters removed; ./home/./jovyan/filers/x and \home\jovyan\filers\x
\* both give x.
C11_MarkersInOrder ==
    op = "process_filer_path" =>
        /\ RemainderStart(path) # 0 =>
            result.value =
                lstrip(sub_backslash(Suffix(path, RemainderStart(path))), {"/", "."})
        /\ path \in {S("./home/./jovyan/filers/x"), S("\\home\\jovyan\\filers\\x")} =>
            result.value = S("x")

C11_Witness ==
    /\ op = "process_filer_path"
    /\ path = S("./home/./jovyan/filers/x")
    /\ RemainderStart(path) = Len(path)
    /\ result.value = S("x")

\* C11 also covers the path written with backslashes
C11_BackslashesReached ==
    /\ op = "process_filer_path"
    /\ path = S("\\home\\jovyan\\filers\\x")
    /\ result.value = S("x")

----------------------------------------------------------------------------
\* C12: remap_filer_aliases is total and case-insensitive: for every input it
\* returns, without failing, the canonical name C when the lower-cased input
\* is one of C's alternate names and the lower-cased input itself otherwise;
\* for every alias-table entry x the upper-cased and the lower-cased x are
\* remapped to the same name.
C12_TotalCaseInsensitive ==
    op = "remap_filer_aliases" =>
        /\ result.status = "return"
        /\ result.value = IF IsAlternate(lower(path)) THEN CanonicalOf(lower(path))
                          ELSE lower(path)
        /\ path \in AliasEntries =>
            /\ remap_filer_aliases(upper(path)) = remap_filer_aliases(lower(path))
            /\ remap_filer_aliases(upper(path)) = result.value

\* an upper-cased alternate name is remapped to its canonical name
C12_Witness ==
    /\ op = "remap_filer_aliases"
    /\ path = S("TAXADMIN")
    /\ result = Return(S("taxfilersvm"))

\* an unknown mixed-case name passes through lower-cased
C12_UnknownReached ==
    op = "remap_filer_aliases" /\ path = S("Docs") /\ result = Return(S("docs"))

----------------------------------------------------------------------------
\* C13: in the alias table no canonical filer name appears in its own list
\* of alternate names (so a canonical name is remapped to itself by the
\* fall-through return, not by a match).
C13_NoSelfAlias ==
    /\ \A i \in 1..Len(items) : ~contains(items[i][2], items[i][1])
    /\ (op = "remap_filer_aliases" /\ \E i \in 1..Len(items) : path = items[i][1]) =>
        ~IsAlternate(path) /\ result.value = path

\* a canonical name, which no list contains, has been remapped to itself
C13_Witness ==
    /\ op = "remap_filer_aliases"
    /\ path = S("fld3filersvm")
    /\ \E i \in 1..Len(items) : path = items[i][1]
    /\ ~IsAlternate(path)
    /\ result = Return(S("fld3filersvm"))

----------------------------------------------------------------------------
(* get_filer_env_config *)

\* the names of the url, access key and secret key variables of the filer of c
FilerVars(c) ==
    << c[1][1] \o S("_url"), c[1][1] \o S("_access"), c[1][1] \o S("_secret") >>

\* the first of the three variables that is not set in e (0: all are set)
FirstAbsent(c, e) ==
    IF \A k \in 1..3 : FilerVars(c)[k] \in DOMAIN e THEN 0
    ELSE CHOOSE k \in 1..3 :
            /\ FilerVars(c)[k] \notin DOMAIN e
            /\ \A j \in 1..(k - 1) : FilerVars(c)[j] \in DOMAIN e

\* the values of the three variables, as the first three fields of the result
FilerValues(c, e) == [k \in 1..3 |-> Str(e[FilerVars(c)[k]])]

C14_AllSetReached ==
    /\ op = "get_filer_env_config"
    /\ path = S("taxadmin/docs/report.pdf")
    /\ DOMAIN env = {S("taxfilersvm_url"), S("taxfilersvm_access"),
                     S("taxfilersvm_secret"), S("taxfilersvm_docs")}
    /\ result = Return(<< Str(ValueOf(S("taxfilersvm_url"))),
                          Str(ValueOf(S("taxfilersvm_access"))),
                          Str(ValueOf(S("taxfilersvm_secret"))),
                          Str(ValueOf(S("taxfilersvm_docs"))),
                          Str(S("report.pdf")) >>)

C15_NoShareReached ==
    /\ op = "get_filer_env_config"
    /\ path = S("taxadmin")
    /\ DOMAIN env = {S("taxfilersvm_url"), S("taxfilersvm_access"), S("taxfilersvm_secret")}
    /\ result.status = "return"
    /\ result.value[4] = None

----------------------------------------------------------------------------
(* get_all_filers *)

\* C16: get_all_filers returns exactly one record per environment variable
\* whose name matches ^(.*filersvm|st.*svm)_url$, with base equal to that name
\* minus the _url suffix (base followed by _url is the name), and no record
\* for a variable that does not match.
C16_OneRecordPerUrlName ==
    op = "get_all_filers" =>
        /\ Len(result.value) = Cardinality(url_keys(env))
        /\ {result.value[k].base \o S("_url") : k \in 1..Len(result.value)}
               = url_keys(env)

\* C17: get_all_filers never fails on missing credentials: access_key and
\* secret_key of a record are None when {base}_access, {base}_secret are
\* unset, and url is always the value of {base}_url, never None.
C17_UrlNeverNone ==
    op = "get_all_filers" =>
        /\ result.status = "return"
        /\ \A k \in 1..Len(result.value) :
            LET r == result.value[k]
            IN  /\ r.access_key = getenv(env, r.base \o S("_access"))
                /\ r.secret_key = getenv(env, r.base \o S("_secret"))
                /\ r.url # None
                /\ r.base \o S("_url") \in DOMAIN env
                /\ r.url = Str(env[r.base \o S("_url")])

----------------------------------------------------------------------------
(* init_all_filers *)

\* the commands run so far are those of the first records, in order
InvokedInOrder ==
    /\ Len(invoked) <= Len(filers)
    /\ \A k \in 1..Len(invoked) :
        /\ invoked[k][4] = filers[k].base
        /\ << invoked[k][5] >> = filers[k].url
        /\ << invoked[k][6] >> = filers[k].access_key
        /\ << invoked[k][7] >> = filers[k].secret_key

\* C18: init_all_filers invokes mc alias set <base> <url> <access_key>
\* <secret_key> exactly once for every record returned by get_all_filers, in
\* sequence order; a non-zero exit status does not abort the loop: every
\* later filer is still attempted and no error is raised to the caller.
C18_OncePerRecord ==
    op = "init_all_filers" =>
        /\ InvokedInOrder
        /\ Len(codes) <= Len(invoked)
        /\ pc # "raised"
        /\ pc = "done" => Len(invoked) = Len(filers)

\* C19: the marker file is written only after every discovered filer has
\* been attempted, never before or between attempts, and once
\* init_all_filers has ended it has been written, with the content
\* Done mc init., whether or not a registration failed (the file system
\* permitting).
C19_MarkerAfterAll ==
    op = "init_all_filers" =>
        /\ marker # None => (pc = "done" /\ Len(codes) = Len(filers))
        /\ (pc \in {"done", "raised"} /\ fs = "ok") => marker = Str(S("Done mc init."))

\* C20: a failure to write the marker file is caught: init_all_filers
\* returns normally, raises nothing, and the registrations already performed
\* are unaffected.
C20_MarkerFailureCaught ==
    (op = "init_all_filers" /\ Len(codes) = Len(filers) /\ pc # "loop") =>
        /\ pc = "done"
        /\ result = Return(None)
        /\ InvokedInOrder
        /\ Len(invoked) = Len(filers)
        /\ fs = "denied" => marker = None
        /\ fs = "full" => marker = Str(<< >>)

\* two filers registered, the first with a non-zero status, and the write of
\* the marker file denied: init_all_filers has returned
C20_Witness ==
    /\ op = "init_all_filers"
    /\ pc = "done"
    /\ fs = "denied"
    /\ Len(invoked) = 2
    /\ codes = << 1, 0 >>
    /\ marker = None
    /\ result = Return(None)

\* the write failed after the file had been created
C20_FullReached ==
    op = "init_all_filers" /\ pc = "done" /\ fs = "full" /\ Len(invoked) = 1
        /\ marker = Str(<< >>)

----------------------------------------------------------------------------
(* calls interleaved with changes of the environment *)

\* C21: no environment read is cached: in any sequence of calls to
\* get_mc_path, get_filer_env_config and get_all_filers interleaved with
\* changes to the environment, the result of each call is the one determined
\* by the environment as it is at that call.
C21_NoCache ==
    /\ op = "get_mc_path" => result = get_mc_path(path, env)
    /\ op = "get_filer_env_config" => result = get_filer_env_config(path, env)
    /\ op = "get_all_filers" =>
        \E keys \in Orders(url_keys(env)) : result = Return(get_all_filers(env, keys))

\* the bucket variable was set after an earlier call, the environment being
\* empty at first: the call made after the change has returned its value
C21_Witness ==
    /\ op = "get_mc_path"
    /\ path = S("taxadmin/docs/report.pdf")
    /\ env = [n \in {S("taxfilersvm_docs")} |-> S("bucket10")]
    /\ result = Return(S("taxfilersvm/bucket10/report.pdf"))

\* a variable was set and removed again: the call made after the removal
\* has failed on it
C21_RemovedReached ==
    /\ op = "get_filer_env_config"
    /\ DOMAIN env = {S("taxfilersvm_access"), S("taxfilersvm_secret")}
    /\ result = KeyError(S("taxfilersvm_url"))

----------------------------------------------------------------------------
(* check_filer_path *)

\* p begins with two separators, each a slash or a backslash
IsUNC(p) == Len(p) >= 2 /\ p[1] \in {"/", "\\"} /\ p[2] \in {"/", "\\"}

\* C22 as stated: check_filer_path(p) is true if and only if p, after
\* backslashes are replaced by forward slashes, starts with //, or the
\* absolute form of p resolved against the current working directory starts
\* with /home/jovyan/filers/.
C22_Original ==
    op = "check_filer_path" =>
        result.value = (\/ StartsWith(sub_backslash(path), S("//"))
                        \/ StartsWith(abspath(path, cwd), MOUNT))

\* C22 (amended): check_filer_path(p) is true if and only if q, which is p
\* with its backslashes replaced by forward slashes, starts with //, or the
\* absolute form of q resolved against the current working directory starts
\* with /home/jovyan/filers/; for a path starting with // or \\ the result is
\* true in every working directory.
C22_FilerPath ==
    op = "check_filer_path" =>
        /\ result.value = (\/ IsUNC(path)
                           \/ StartsWith(abspath(sub_backslash(path), cwd), MOUNT))
        /\ (StartsWith(path, S("//")) \/ StartsWith(path, S("\\\\"))) =>
            /\ result.value = TRUE
            /\ \A wd \in Cwds : check_filer_path(path, wd)

\* a path under the mount root written with backslashes is a filer path
C22_Witness ==
    /\ op = "check_filer_path"
    /\ path = S("\\home\\jovyan\\filers\\x")
    /\ cwd = S("/tmp")
    /\ result = Return(TRUE)

\* a UNC path is a filer path whatever the working directory
C22_UNCReached ==
    op = "check_filer_path" /\ path = S("\\\\x") /\ cwd = S("/tmp") /\ result = Return(TRUE)

\* a relative path is a filer path in a working directory under the mount root
C22_RelativeReached ==
    /\ op = "check_filer_path"
    /\ path = S("../x")
    /\ cwd = S("/home/jovyan/filers/x")
    /\ result = Return(TRUE)

\* the mount root itself is not a filer path
C22_MountRootReached ==
    /\ op = "check_filer_path"
    /\ path = S("/home/jovyan/filers/")
    /\ result = Return(FALSE)

----------------------------------------------------------------------------
(* wait_for_condition *)

\* what holds of the polls made so far and of the value returned
PollsWithinTimeout ==
    /\ wait.polls > 0 => wait.poll_at < wait.timeout
    /\ wait.met => (wait.pc = "done" /\ wait.poll_value)
    /\ wait.pc = "done" =>
        /\ wait.returned = wait.met
        /\ ~wait.returned => ~(wait.elapsed < wait.timeout)
        /\ result = Returned(op, wait, wait.returned)

\* C23: wait_for_condition returns True exactly when some poll of
\* condition_func, made while elapsed time is below timeout, returned a true
\* value, and it stops polling at the first such poll; otherwise it returns
\* False, once the timeout has elapsed.  Every call returns, so for a
\* condition that is never true it returns False.
C23_TrueIffMet ==
    /\ []PollsWithinTimeout
    /\ <>(wait.pc = "done")
    /\ [](wait.condition = "never" => <>(wait.pc = "done" /\ ~wait.returned))

\* the condition was false at two polls and true at the third
C23_Witness ==
    /\ op = "wait_for_condition"
    /\ wait.pc = "done"
    /\ wait.condition = "any"
    /\ wait.polls = 3
    /\ wait.poll_at < wait.timeout
    /\ wait.returned
    /\ result = Return(TRUE)

\* the condition was never true: False after the timeout of the test
\* test_port_not_opening, several polls having been made
C23_TimedOutReached ==
    /\ op = "wait_for_condition"
    /\ wait.pc = "done"
    /\ wait.condition = "never"
    /\ wait.polls >= 2
    /\ wait.elapsed >= wait.timeout
    /\ result = Return(FALSE)

\* C26: get_mc_path fails with the missing-filer error exactly when the path
\* is empty after normalization: get_components returns an empty filer only
\* for such a path, with share and key both None, so whenever the share is
\* not None the filer is a non-empty str.
C26_MissingFilerIffEmpty ==
    op = "get_mc_path" =>
        LET c == get_components(path)
        IN  /\ (result = Raise("Missing filer name.")) <=> (process_filer_path(path) = << >>)
            /\ c[1] # None
            /\ c[1] = Str(<< >>) =>
                (process_filer_path(path) = << >> /\ c[2] = None /\ c[3] = None)
            /\ c[2] # None => Len(c[1][1]) > 0

\* a path that begins with a slash is not reported as missing its filer
C26_Witness ==
    /\ op = "get_mc_path"
    /\ path = S("/docs/report.pdf")
    /\ get_components(path) = << Str(S("docs")), Str(S("report.pdf")), None >>
    /\ result = Raise("Bucket for share not found.")

\* a path of separators only is empty after normalization
C26_EmptyReached ==
    /\ op = "get_mc_path"
    /\ path = S("/\\/")
    /\ get_components(path) = << Str(<< >>), None, None >>
    /\ result = Raise("Missing filer name.")

----------------------------------------------------------------------------
\* the scan of the table from its last entry to its first
RECURSIVE scan_reverse(_, _)
scan_reverse(filer, i) ==
    IF i = 0 THEN filer
    ELSE IF contains(items[i][2], filer) THEN items[i][1]
    ELSE scan_reverse(filer, i - 1)

\* C27: the alternate-name lists of the alias table are pairwise disjoint
\* and contain no canonical name of any entry, so the result of
\* remap_filer_aliases does not depend on the order in which the table is
\* scanned, and remapping its result again gives the same name.
C27_DisjointLists ==
    /\ \A i, j \in 1..Len(items) :
        /\ i # j => \A k \in 1..Len(items[i][2]) : ~contains(items[j][2], items[i][2][k])
        /\ ~contains(items[i][2], items[j][1])
    /\ op = "remap_filer_aliases" =>
        /\ result.value = scan_reverse(lower(path), Len(items))
        /\ remap_filer_aliases(result.value) = result.value

\* an alternate name of the last entry but one, in upper case: the scans in
\* both directions give its canonical name, which is remapped to itself
C27_Witness ==
    /\ op = "remap_filer_aliases"
    /\ path = S("STUCFLR-SASFS30")
    /\ result = Return(S("stucflr_sasfs30svm"))
    /\ scan_reverse(lower(path), Len(items)) = S("stucflr_sasfs30svm")
    /\ remap_filer_aliases(result.value) = result.value

----------------------------------------------------------------------------
\* C28: every canonical filer name C of the alias table is discoverable: the
\* name C_url matches the pattern of get_all_filers, so an environment that
\* defines C_url yields a record with base C, and C is the filer that
\* get_components returns for each of C's aliases.
C28_Discoverable ==
    /\ \A i \in 1..Len(items) :
        /\ match_url_key(items[i][1] \o S("_url"))
        /\ sub_url(items[i][1] \o S("_url")) = items[i][1]
    /\ op = "get_all_filers" =>
        \A i \in 1..Len(items) :
            (items[i][1] \o S("_url")) \in DOMAIN env =>
                \E k \in 1..Len(result.value) :
                    /\ result.value[k].base = items[i][1]
                    /\ result.value[k].url = Str(env[items[i][1] \o S("_url")])
    /\ op = "get_components" =>
        /\ \E i \in 1..Len(items) :
            /\ result.value[1] = Str(items[i][1])
            /\ path \in AliasPaths(i)
        /\ (result.value[1][1] \o S("_url")) \in DOMAIN env

\* the url of stcffb03svm is defined: its record has been discovered
C28_Witness ==
    /\ op = "get_all_filers"
    /\ path = S("yeti-bwsfs-dev1/share/key")
    /\ get_components(path)[1] = Str(S("stcffb03svm"))
    /\ DOMAIN env = {S("stcffb03svm_url")}
    /\ Len(result.value) = 1
    /\ result.value[1].base = S("stcffb03svm")

\* an alias of stcffb03svm has been resolved to the name that is discovered
C28_ResolvedReached ==
    /\ op = "get_components"
    /\ path = S("yeti-bwsfs-dev1/share/key")
    /\ S("stcffb03svm_url") \in DOMAIN env
    /\ result.value[1] = Str(S("stcffb03svm"))

----------------------------------------------------------------------------
\* the records of filers whose access_key or secret_key is none
MissingKeys ==
    {k \in 1..Len(filers) : filers[k].access_key = None \/ filers[k].secret_key = None}

\* C29: when get_all_filers yields a record whose access_key or secret_key is
\* none, init_all_filers treats that filer as one more failure: it raises
\* nothing, still attempts every remaining filer, and still writes the marker
\* file.
C29_MissingKeyIsFailure ==
    (op = "init_all_filers" /\ MissingKeys # {}) =>
        /\ result.status # "raise"
        /\ pc \notin {"loop", "running"} =>
            /\ Len(codes) = Len(filers)
            /\ fs = "ok" => marker = Str(S("Done mc init."))

----------------------------------------------------------------------------
\* C25: the delay slept between two consecutive polls never exceeds
\* max_delay, for every choice of initial_delay, exponential_base and jitter,
\* and never exceeds the time remaining before the timeout.
C25_SleepWithinMaxDelay ==
    wait.sleeps > 0 =>
        /\ wait.sleep_time <= wait.max_delay
        /\ wait.sleep_time <= wait.remaining_time

\* C30: wait_for_condition polls the condition at least once before giving
\* up, for every timeout: a condition that is true from the start makes it
\* return True, and wait_for_exec_success then returns the output of a run of
\* the command, not None.
C30_PollsAtLeastOnce ==
    wait.pc = "done" =>
        /\ wait.polls >= 1
        /\ wait.condition = "always" => wait.returned
        /\ op = "wait_for_exec_success" => result.value[2] # None

----------------------------------------------------------------------------
\* C24: provided every registration command returns, init_all_filers
\* eventually reaches the marker-file step, after one invocation per
\* discovered filer; while an invocation has not returned no later filer is
\* attempted and the marker file is not written.
C24_ReachesMarkerStep ==
    /\ <>(pc = "done")
    /\ [](pc = "done" => Len(invoked) = Len(filers))
    /\ [](pc = "running" => (marker = None /\ Len(invoked) = Len(codes) + 1))

====
